---- MODULE Spec2Model ----
(***************************************************************************)
(* The write-ahead log of kernel/log.c: begin_op / log_write / end_op,     *)
(* commit, crash and recover_from_log, over a small disk and buffer cache. *)
(*                                                                         *)
(* Representation.  struct logheader {n, block[LOGSIZE]} is a sequence:    *)
(* Len(lh) is log.lh.n and lh[i+1] is log.lh.block[i].  Array entries at   *)
(* index >= n are never read by log.c (every loop runs i < log.lh.n), so   *)
(* they are not part of the state.  The same holds for the header block on *)
(* disk (dhead).  logd[s] is the disk block log.start+s, for s >= 1;       *)
(* home[b] is the disk block b outside the log; cache[b] is b->data of the *)
(* buffer of block b (what bread returns), pin[b] the references the log   *)
(* holds on that buffer through bpin.  A block without a modified buffer   *)
(* reads as its disk content, so cache[b] = home[b] for it; a modified     *)
(* buffer is pinned from log_write on and is not evicted.                  *)
(* A payload is one of two values.                                         *)
(*                                                                         *)
(* Every critical section of log.lock is one action; commit() and          *)
(* recover_from_log() advance one disk write per action, and Crash may     *)
(* fall between any two of them.                                           *)
(*                                                                         *)
(* Beside the log: the input line buffer of kernel/console.c (cons, rd),   *)
(* whose uint indices wrap at a multiple of the buffer size, and the       *)
(* outcome of one batch of log_write calls taken in two orders (ord).      *)
(***************************************************************************)
EXTENDS Integers, Sequences, FiniteSets

\* ---- sizes of the model ----
NPROC == 2          \* threads issuing system calls
NBLOCK == 2         \* home blocks on the disk
MaxWrites == 3      \* log_write calls of the batch whose orders are compared
INPUT_BUF_SIZE == 3 \* console.c: bytes of cons.buf (128 in the kernel)
MaxRead == 2        \* the largest n passed to consoleread

\* kernel/param.h (scaled down, ratio kept: LOGSIZE is MAXOPBLOCKS*3)
MAXOPBLOCKS == 1
LOGSIZE == MAXOPBLOCKS * 3
\* log.size = sb->nlog; mkfs lays the log out with nlog = LOGSIZE blocks
LogSize == LOGSIZE

Procs == 1..NPROC
Blocks == 1..NBLOCK
Vals == {0, 1}            \* a block's payload
Slots == 1..(LogSize - 1)

VARIABLES
    lh,           \* log.lh: in-memory header, the first n block numbers
    outstanding,  \* log.outstanding
    committing,   \* log.committing
    lock,         \* log.lock: 0 when free, else the thread holding it
    cache,        \* buffer cache: block -> b->data
    pin,          \* block -> pins taken by bpin and not yet dropped by bunpin
    home,         \* disk: home blocks
    logd,         \* disk: log data blocks log.start+1 ..
    dhead,        \* disk: header block log.start
    mode,         \* "recover" (inside initlog) or "run"
    panicmsg,     \* "none", or the message of the panic that halted the kernel
    cpc,          \* position inside commit() or recover_from_log()
    tail,         \* loop variable of write_log / install_trans
    pc,           \* per thread: idle, sleep, woken, open, commit, clear
    wrote,        \* per thread: block numbers passed to log_write in this call
    \* history variables, read by the properties only
    cancelled,    \* per thread: killed since it entered the begin_op it is in
    batch,        \* block numbers passed to log_write since the last commit
    pre,          \* home blocks as they were when the current batch started
    final,        \* cache contents at the last commit point
    peak,         \* the most system calls open at once in the current batch
    hwrites,      \* write_head calls made by the commit() now running
    crashed,      \* cpc at the crash being recovered from ("boot": none yet)
    ctail,        \* tail at that crash
    cdisk,        \* the disk and log.lh at that crash, and whether initlog
                  \* was interrupted by a further crash since
    \* console.c
    cons,         \* struct cons: buf, r, w, e
    rd,           \* the process inside consoleread: position, n, target
    \* two orders of one batch of log_write calls, and what each commits
    ord

logmem == <<lh, outstanding, committing, lock>>
bufs == <<cache, pin>>
disk == <<home, logd, dhead>>
ctl == <<mode, panicmsg, cpc, tail>>
procs == <<pc, wrote, cancelled>>
hist == <<batch, pre, final, peak, hwrites, crashed, ctail, cdisk>>
logvars == <<lh, outstanding, committing, lock, cache, pin, home, logd, dhead,
             mode, panicmsg, cpc, tail, pc, wrote, cancelled, batch, pre, final,
             peak, hwrites, crashed, ctail, cdisk>>
\* what the log does not touch
aside == <<cons, rd, ord>>
vars == <<logvars, aside>>

Range(s) == {s[i] : i \in 1..Len(s)}

NoDisk == [home |-> [b \in Blocks |-> 0], logd |-> [s \in Slots |-> 0],
           head |-> <<>>, lh |-> <<>>, again |-> FALSE]

InitLog ==
    /\ lh = <<>>
    /\ outstanding = 0
    /\ committing = 0
    /\ lock = 0
    /\ home = [b \in Blocks |-> 0]
    /\ logd = [s \in Slots |-> 0]
    /\ dhead = <<>>
    /\ cache = home
    /\ pin = [b \in Blocks |-> 0]
    /\ mode = "recover"
    /\ panicmsg = "none"
    /\ cpc = "read_head"
    /\ tail = 0
    /\ pc = [t \in Procs |-> "idle"]
    /\ wrote = [t \in Procs |-> {}]
    /\ cancelled = [t \in Procs |-> FALSE]
    /\ batch = {}
    /\ pre = home
    /\ final = home
    /\ peak = 0
    /\ hwrites = 0
    /\ crashed = "boot"
    /\ ctail = 0
    /\ cdisk = NoDisk

\* a call of log_write: the block and the payload its buffer holds
Writes == Blocks \X Vals

Home0 == [b \in Blocks |-> 0]

NoOut == [panic |-> FALSE, lh |-> <<>>, home |-> Home0]

NoOrd == [a |-> <<>>, b |-> <<>>, done |-> FALSE, outA |-> NoOut, outB |-> NoOut]

\* cons.r, cons.w, cons.e are uint: they count modulo a multiple of
\* INPUT_BUF_SIZE (2^32 = 2^25 * 128 in the kernel)
UintMod == 2 * INPUT_BUF_SIZE

\* the zeroed struct cons
ConsInit == [buf |-> [i \in 0..(INPUT_BUF_SIZE - 1) |-> "nul"],
             r |-> 0, w |-> 0, e |-> 0]

RdInit == [st |-> "none", n |-> 0, target |-> 0]

Init == InitLog /\ cons = ConsInit /\ rd = RdInit /\ ord = NoOrd

Running == mode = "run" /\ panicmsg = "none"
Recovering == mode = "recover" /\ panicmsg = "none"

\* ---- recover_from_log, called by initlog ----

\* read_head: log.lh.n = lh->n, then the first n block numbers
ReadHead ==
    /\ Recovering /\ cpc = "read_head"
    /\ lh' = dhead
    /\ cpc' = "install"
    /\ tail' = 0
    /\ UNCHANGED <<outstanding, committing, lock, bufs, disk, mode, panicmsg, procs,
                   hist>>
    /\ UNCHANGED aside

\* install_trans, one iteration of its loop: copy log block tail to its home.
\* lbuf is the log block log.start+tail+1, dbuf the buffer of block[tail].
InstallData_FromCache(i) == cache[lh[i + 1]]  \* bug: the memmove is missing

InstallData(i) == logd[i + 1]

\* bug: bunpin without the test of recovering
InstallOne_AlwaysUnpin(recovering) ==
    LET b == lh[tail + 1] IN
    /\ tail < Len(lh)
    /\ cache' = [cache EXCEPT ![b] = InstallData(tail)]
    /\ home' = [home EXCEPT ![b] = InstallData(tail)]
    /\ pin' = [pin EXCEPT ![b] = @ - 1]
    /\ tail' = tail + 1

InstallOne(recovering) ==
    LET b == lh[tail + 1] IN
    /\ tail < Len(lh)
    /\ cache' = [cache EXCEPT ![b] = InstallData(tail)]
    /\ home' = [home EXCEPT ![b] = InstallData(tail)]
    /\ pin' = IF recovering = 0 THEN [pin EXCEPT ![b] = @ - 1] ELSE pin
    /\ tail' = tail + 1

\* install_trans(1) of recover_from_log
RecoverInstall ==
    /\ Recovering /\ cpc = "install"
    /\ InstallOne(1)
    /\ UNCHANGED <<logmem, logd, dhead, mode, panicmsg, cpc, procs, hist>>
    /\ UNCHANGED aside

\* bug: log.lh.n = 0 without the write_head
RecoverClear_NoWrite ==
    /\ Recovering /\ cpc = "install" /\ tail = Len(lh)
    /\ lh' = <<>>
    /\ cpc' = "done"
    /\ UNCHANGED <<outstanding, committing, lock, bufs, disk, mode, panicmsg, tail,
                   procs, hist>>
    /\ UNCHANGED aside

\* log.lh.n = 0; write_head()
RecoverClear ==
    /\ Recovering /\ cpc = "install" /\ tail = Len(lh)
    /\ lh' = <<>>
    /\ dhead' = <<>>
    /\ cpc' = "done"
    /\ UNCHANGED <<outstanding, committing, lock, bufs, home, logd, mode, panicmsg,
                   tail, procs, hist>>
    /\ UNCHANGED aside

\* initlog returns: the file system is in use from here on
InitlogReturn ==
    /\ Recovering /\ cpc = "done"
    /\ mode' = "run"
    /\ cpc' = "none"
    /\ tail' = 0
    /\ batch' = {}
    /\ pre' = home
    /\ final' = home
    /\ peak' = 0
    /\ hwrites' = 0
    /\ crashed' = "boot"
    /\ ctail' = 0
    /\ cdisk' = NoDisk
    /\ UNCHANGED <<logmem, bufs, disk, panicmsg, procs>>
    /\ UNCHANGED aside

\* ---- begin_op ----

\* bug: the log-space test is missing
CanAdmit_NoSpace == committing = 0

\* bug: the log.committing test is missing
CanAdmit_IgnoreCommitting ==
    ~(Len(lh) + (outstanding + 1) * MAXOPBLOCKS > LOGSIZE)

\* the else branch of begin_op's loop is taken
CanAdmit ==
    /\ committing = 0
    /\ ~(Len(lh) + (outstanding + 1) * MAXOPBLOCKS > LOGSIZE)

\* wakeup(&log): every thread sleeping on &log becomes runnable
Wakeup(p) == [t \in Procs |-> IF p[t] = "sleep" THEN "woken" ELSE p[t]]

\* bug: log.outstanding is incremented before the loop, sleeping or not
BeginOp_EarlyIncrement(t) ==
    /\ Running /\ pc[t] \in {"idle", "woken"}
    /\ lock = 0 /\ lock' = 0
    /\ outstanding' = IF pc[t] = "idle" THEN outstanding + 1 ELSE outstanding
    /\ IF CanAdmit
          THEN /\ pc' = [pc EXCEPT ![t] = "open"]
               /\ cancelled' = [cancelled EXCEPT ![t] = FALSE]
          ELSE /\ pc' = [pc EXCEPT ![t] = "sleep"]
               /\ UNCHANGED cancelled
    /\ peak' = IF outstanding' > peak THEN outstanding' ELSE peak
    /\ UNCHANGED <<lh, committing, bufs, disk, ctl, wrote, batch, pre,
                   final, hwrites, crashed, ctail, cdisk>>
    /\ UNCHANGED aside

\* bug: "if" instead of the loop, a thread returning from sleep is admitted
\* without testing the condition again
BeginOp_NoRecheck(t) ==
    /\ Running /\ pc[t] \in {"idle", "woken"}
    /\ lock = 0 /\ lock' = 0
    /\ IF CanAdmit \/ pc[t] = "woken"
          THEN /\ outstanding' = outstanding + 1
               /\ pc' = [pc EXCEPT ![t] = "open"]
               /\ cancelled' = [cancelled EXCEPT ![t] = FALSE]
          ELSE /\ outstanding' = outstanding
               /\ pc' = [pc EXCEPT ![t] = "sleep"]
               /\ UNCHANGED cancelled
    /\ peak' = IF outstanding' > peak THEN outstanding' ELSE peak
    /\ UNCHANGED <<lh, committing, bufs, disk, ctl, wrote, batch, pre,
                   final, hwrites, crashed, ctail, cdisk>>
    /\ UNCHANGED aside

\* One pass of the loop under log.lock: a first call, or a return from sleep.
BeginOp(t) ==
    /\ Running /\ pc[t] \in {"idle", "woken"}
    /\ lock = 0 /\ lock' = 0
    /\ IF CanAdmit
          THEN /\ outstanding' = outstanding + 1
               /\ pc' = [pc EXCEPT ![t] = "open"]
               /\ cancelled' = [cancelled EXCEPT ![t] = FALSE]
          ELSE /\ outstanding' = outstanding
               /\ pc' = [pc EXCEPT ![t] = "sleep"]
               /\ UNCHANGED cancelled
    /\ peak' = IF outstanding' > peak THEN outstanding' ELSE peak
    /\ UNCHANGED <<lh, committing, bufs, disk, ctl, wrote, batch, pre,
                   final, hwrites, crashed, ctail, cdisk>>
    /\ UNCHANGED aside

\* ---- log_write ----

\* bug: no absorption scan
LogWriteList_NoAbsorb(l, b) == Append(l, b)

\* the header after the absorption scan and the append
LogWriteList(l, b) == IF b \in Range(l) THEN l ELSE Append(l, b)

TooBig == Len(lh) >= LOGSIZE \/ Len(lh) >= LogSize - 1

\* bug: the open-transaction test comes after the slot has been taken
LogWriteCall_CheckLate(b) ==
    IF TooBig
       THEN /\ panicmsg' = "too big a transaction"
            /\ UNCHANGED <<lh, pin, batch>>
       ELSE /\ lh' = LogWriteList(lh, b)
            /\ pin' = IF Len(lh') > Len(lh) THEN [pin EXCEPT ![b] = @ + 1] ELSE pin
            /\ batch' = batch \cup {b}
            /\ panicmsg' = IF outstanding < 1 THEN "log_write outside of trans"
                                              ELSE panicmsg

\* log_write(b): the capacity test, then the open-transaction test, then the
\* absorbing scan and, for a new slot, bpin and n++.
LogWriteCall(b) ==
    IF TooBig
       THEN /\ panicmsg' = "too big a transaction"
            /\ UNCHANGED <<lh, pin, batch>>
       ELSE IF outstanding < 1
       THEN /\ panicmsg' = "log_write outside of trans"
            /\ UNCHANGED <<lh, pin, batch>>
       ELSE /\ lh' = LogWriteList(lh, b)
            /\ pin' = IF Len(lh') > Len(lh) THEN [pin EXCEPT ![b] = @ + 1] ELSE pin
            /\ batch' = batch \cup {b}
            /\ UNCHANGED panicmsg

\* A system call modifies the buffer of block b and passes it to log_write:
\* bp = bread; modify bp->data; log_write(bp); brelse(bp).  It passes at most
\* MAXOPBLOCKS distinct block numbers between begin_op and end_op.
LogWrite(t, b, v) ==
    /\ Running /\ pc[t] = "open"
    /\ Cardinality(wrote[t] \cup {b}) <= MAXOPBLOCKS
    /\ cache' = [cache EXCEPT ![b] = v]
    /\ lock = 0 /\ lock' = 0
    /\ LogWriteCall(b)
    /\ wrote' = IF panicmsg' = "none" THEN [wrote EXCEPT ![t] = @ \cup {b}] ELSE wrote
    /\ UNCHANGED <<outstanding, committing, disk, mode, cpc, tail, pc, cancelled,
                   pre, final, peak, hwrites, crashed, ctail, cdisk>>
    /\ UNCHANGED aside

\* ---- end_op ----

\* bug: every end_op commits, whatever log.outstanding is
EndOp_AlwaysCommit(t) ==
    /\ Running /\ pc[t] = "open"
    /\ lock = 0 /\ lock' = 0
    /\ outstanding' = outstanding - 1
    /\ wrote' = [wrote EXCEPT ![t] = {}]
    /\ IF committing # 0
          THEN /\ panicmsg' = "log.committing"
               /\ UNCHANGED <<committing, pc, cpc>>
          ELSE /\ committing' = 1
               /\ pc' = [pc EXCEPT ![t] = "commit"]
               /\ cpc' = "begin"
               /\ UNCHANGED panicmsg
    /\ UNCHANGED <<lh, bufs, disk, mode, tail, cancelled, hist>>
    /\ UNCHANGED aside

\* bug: do_commit is set without log.committing = 1
EndOp_NoFlag(t) ==
    /\ Running /\ pc[t] = "open"
    /\ lock = 0 /\ lock' = 0
    /\ outstanding' = outstanding - 1
    /\ wrote' = [wrote EXCEPT ![t] = {}]
    /\ IF committing # 0
          THEN /\ panicmsg' = "log.committing"
               /\ UNCHANGED <<committing, pc, cpc>>
          ELSE IF outstanding' = 0
          THEN /\ pc' = [pc EXCEPT ![t] = "commit"]
               /\ cpc' = "begin"
               /\ UNCHANGED <<panicmsg, committing>>
          ELSE /\ pc' = [Wakeup(pc) EXCEPT ![t] = "idle"]
               /\ UNCHANGED <<panicmsg, committing, cpc>>
    /\ UNCHANGED <<lh, bufs, disk, mode, tail, cancelled, hist>>
    /\ UNCHANGED aside

\* bug: commit() is called before release(&log.lock)
EndOp_HoldsLock(t) ==
    /\ Running /\ pc[t] = "open"
    /\ lock = 0
    /\ outstanding' = outstanding - 1
    /\ wrote' = [wrote EXCEPT ![t] = {}]
    /\ IF committing # 0
          THEN /\ panicmsg' = "log.committing"
               /\ lock' = 0
               /\ UNCHANGED <<committing, pc, cpc>>
          ELSE IF outstanding' = 0
          THEN /\ committing' = 1
               /\ pc' = [pc EXCEPT ![t] = "commit"]
               /\ cpc' = "begin"
               /\ lock' = t
               /\ UNCHANGED panicmsg
          ELSE /\ pc' = [Wakeup(pc) EXCEPT ![t] = "idle"]
               /\ lock' = 0
               /\ UNCHANGED <<panicmsg, committing, cpc>>
    /\ UNCHANGED <<lh, bufs, disk, mode, tail, cancelled, hist>>
    /\ UNCHANGED aside

\* the critical section of end_op
EndOp(t) ==
    /\ Running /\ pc[t] = "open"
    /\ lock = 0 /\ lock' = 0
    /\ outstanding' = outstanding - 1
    /\ wrote' = [wrote EXCEPT ![t] = {}]
    /\ IF committing # 0
          THEN /\ panicmsg' = "log.committing"
               /\ UNCHANGED <<committing, pc, cpc>>
          ELSE IF outstanding' = 0
          THEN /\ committing' = 1
               /\ pc' = [pc EXCEPT ![t] = "commit"]
               /\ cpc' = "begin"
               /\ UNCHANGED panicmsg
          ELSE /\ pc' = [Wakeup(pc) EXCEPT ![t] = "idle"]
               /\ UNCHANGED <<panicmsg, committing, cpc>>
    /\ UNCHANGED <<lh, bufs, disk, mode, tail, cancelled, hist>>
    /\ UNCHANGED aside

\* ---- commit, run by the thread whose end_op set log.committing ----

\* bug: commit() without the test of log.lh.n
CommitBegin_NoTest(t) ==
    /\ Running /\ pc[t] = "commit" /\ cpc = "begin"
    /\ cpc' = "write_log"
    /\ tail' = 0
    /\ UNCHANGED <<logmem, bufs, disk, mode, panicmsg, procs, hist>>
    /\ UNCHANGED aside

\* if (log.lh.n > 0)
CommitBegin(t) ==
    /\ Running /\ pc[t] = "commit" /\ cpc = "begin"
    /\ cpc' = IF Len(lh) > 0 THEN "write_log" ELSE "done"
    /\ tail' = 0
    /\ UNCHANGED <<logmem, bufs, disk, mode, panicmsg, procs, hist>>
    /\ UNCHANGED aside

\* bug: bwrite(from) instead of bwrite(to)
WriteLog_ToHome(t) ==
    /\ Running /\ pc[t] = "commit" /\ cpc = "write_log"
    /\ tail < Len(lh)
    /\ home' = [home EXCEPT ![lh[tail + 1]] = cache[lh[tail + 1]]]
    /\ tail' = tail + 1
    /\ UNCHANGED <<logmem, bufs, logd, dhead, mode, panicmsg, cpc, procs, hist>>
    /\ UNCHANGED aside

\* write_log, one iteration: copy the cached block[tail] to log block tail
WriteLog(t) ==
    /\ Running /\ pc[t] = "commit" /\ cpc = "write_log"
    /\ tail < Len(lh)
    /\ logd' = [logd EXCEPT ![tail + 1] = cache[lh[tail + 1]]]
    /\ tail' = tail + 1
    /\ UNCHANGED <<logmem, bufs, home, dhead, mode, panicmsg, cpc, procs, hist>>
    /\ UNCHANGED aside

\* bug: the header is written before write_log has copied the blocks
WriteHead_BeforeLog(t) ==
    /\ Running /\ pc[t] = "commit" /\ cpc = "write_log" /\ tail = 0
    /\ dhead' = lh
    /\ cpc' = "install"
    /\ tail' = 0
    /\ final' = cache
    /\ hwrites' = hwrites + 1
    /\ UNCHANGED <<logmem, bufs, home, logd, mode, panicmsg, procs, batch, pre,
                   peak, crashed, ctail, cdisk>>
    /\ UNCHANGED aside

\* write_head of the in-memory header: the commit point
WriteHead(t) ==
    /\ Running /\ pc[t] = "commit" /\ cpc = "write_log" /\ tail = Len(lh)
    /\ dhead' = lh
    /\ cpc' = "install"
    /\ tail' = 0
    /\ final' = cache
    /\ hwrites' = hwrites + 1
    /\ UNCHANGED <<logmem, bufs, home, logd, mode, panicmsg, procs, batch, pre,
                   peak, crashed, ctail, cdisk>>
    /\ UNCHANGED aside

\* install_trans(0)
InstallTrans(t) ==
    /\ Running /\ pc[t] = "commit" /\ cpc = "install"
    /\ InstallOne(0)
    /\ UNCHANGED <<logmem, logd, dhead, mode, panicmsg, cpc, procs, hist>>
    /\ UNCHANGED aside

\* log.lh.n = 0; write_head(): erase the transaction from the log
ClearHead(t) ==
    /\ Running /\ pc[t] = "commit" /\ cpc = "install" /\ tail = Len(lh)
    /\ lh' = <<>>
    /\ dhead' = <<>>
    /\ cpc' = "done"
    /\ batch' = {}
    /\ pre' = home
    /\ hwrites' = hwrites + 1
    /\ UNCHANGED <<outstanding, committing, lock, bufs, home, logd, mode, panicmsg,
                   tail, procs, final, peak, crashed, ctail, cdisk>>
    /\ UNCHANGED aside

\* back in end_op: acquire; log.committing = 0; wakeup(&log); release
EndOpFinish(t) ==
    /\ Running /\ pc[t] = "commit" /\ cpc = "done"
    /\ lock = 0 /\ lock' = 0
    /\ committing' = 0
    /\ pc' = [Wakeup(pc) EXCEPT ![t] = "idle"]
    /\ cpc' = "none"
    /\ tail' = 0
    /\ peak' = 0
    /\ hwrites' = 0
    /\ UNCHANGED <<lh, outstanding, bufs, disk, mode, panicmsg, wrote, cancelled,
                   batch, pre, final, crashed, ctail, cdisk>>
    /\ UNCHANGED aside

\* ---- the environment ----

\* The process of a thread waiting inside begin_op is killed: the sleeping
\* thread becomes runnable and returns from sleep to begin_op's loop.
Kill(t) ==
    /\ Running /\ pc[t] = "sleep" /\ ~cancelled[t]
    /\ cancelled' = [cancelled EXCEPT ![t] = TRUE]
    /\ pc' = [pc EXCEPT ![t] = "woken"]
    /\ UNCHANGED <<logmem, bufs, disk, ctl, wrote, hist>>
    /\ UNCHANGED aside

\* Power loss and reboot: memory is lost, the disk stays, initlog runs again.
Crash ==
    /\ lh' = <<>>
    /\ outstanding' = 0
    /\ committing' = 0
    /\ lock' = 0
    /\ cache' = home
    /\ pin' = [b \in Blocks |-> 0]
    /\ mode' = "recover"
    /\ panicmsg' = "none"
    /\ cpc' = "read_head"
    /\ tail' = 0
    /\ pc' = [t \in Procs |-> "idle"]
    /\ wrote' = [t \in Procs |-> {}]
    /\ cancelled' = [t \in Procs |-> FALSE]
    /\ IF mode = "run"
          THEN /\ crashed' = cpc
               /\ ctail' = tail
               /\ cdisk' = [home |-> home, logd |-> logd, head |-> dhead,
                            lh |-> lh, again |-> FALSE]
          ELSE /\ cdisk' = [cdisk EXCEPT !.again = TRUE]
               /\ UNCHANGED <<crashed, ctail>>
    /\ hwrites' = 0
    /\ UNCHANGED <<disk, batch, pre, final, peak>>
    /\ UNCHANGED aside

Next ==
    \/ ReadHead
    \/ RecoverInstall
    \/ RecoverClear
    \/ InitlogReturn
    \/ \E t \in Procs : BeginOp(t)
    \/ \E t \in Procs, b \in Blocks, v \in Vals : LogWrite(t, b, v)
    \/ \E t \in Procs : EndOp(t)
    \/ \E t \in Procs : CommitBegin(t)
    \/ \E t \in Procs : WriteLog(t)
    \/ \E t \in Procs : WriteHead(t)
    \/ \E t \in Procs : InstallTrans(t)
    \/ \E t \in Procs : ClearHead(t)
    \/ \E t \in Procs : EndOpFinish(t)
    \/ Crash

Spec == Init /\ [][Next]_vars

\* the same system with processes being killed while they wait in begin_op
NextKill ==
    \/ Next
    \/ \E t \in Procs : Kill(t)

SpecKill == Init /\ [][NextKill]_vars

\* ---- callers that break the discipline ----

\* A thread passes the buffer of block b to log_write at a time when no
\* transaction is open, its own or another thread's.
StrayLogWrite(t, b) ==
    /\ Running /\ pc[t] = "idle"
    /\ outstanding < 1
    /\ lock = 0 /\ lock' = 0
    /\ LogWriteCall(b)
    /\ UNCHANGED <<outstanding, committing, cache, disk, mode, cpc, tail, procs, pre,
                   final, peak, hwrites, crashed, ctail, cdisk>>
    /\ UNCHANGED aside

NextMisuse ==
    \/ Next
    \/ \E t \in Procs, b \in Blocks : StrayLogWrite(t, b)

SpecMisuse == Init /\ [][NextMisuse]_vars

\* ---- one batch as a function of the order of its log_write calls ----

\* log_write on the batch state st: the capacity panic, or the buffer's
\* payload and the header after the absorbing scan
OneWrite(st, wr) ==
    IF st.panic \/ Len(st.lh) >= LOGSIZE \/ Len(st.lh) >= LogSize - 1
       THEN [st EXCEPT !.panic = TRUE]
       ELSE [panic |-> FALSE,
             lh |-> LogWriteList(st.lh, wr[1]),
             cache |-> [st.cache EXCEPT ![wr[1]] = wr[2]]]

RECURSIVE AllWrites(_, _)
AllWrites(st, ws) ==
    IF ws = <<>> THEN st ELSE AllWrites(OneWrite(st, Head(ws)), Tail(ws))

\* write_log: log block i gets the buffer of block[i]
WriteLogAll(l, c) == [i \in 1..Len(l) |-> c[l[i]]]

InstallFrom_FirstSlot(ld, i) == ld[1]  \* bug: bread(log.start+1) for every slot

\* install_trans reads log block log.start+tail+1
InstallFrom(ld, i) == ld[i]

RECURSIVE InstallAll(_, _, _, _)
InstallAll(l, ld, h, i) ==
    IF i > Len(l) THEN h
    ELSE InstallAll(l, ld, [h EXCEPT ![l[i]] = InstallFrom(ld, i)], i + 1)

\* the home blocks after the calls ws, in this order, and commit()
Outcome(ws) ==
    LET st == AllWrites([panic |-> FALSE, lh |-> <<>>, cache |-> Home0], ws) IN
    IF st.panic
       THEN [panic |-> TRUE, lh |-> st.lh, home |-> Home0]
       ELSE [panic |-> FALSE, lh |-> st.lh,
             home |-> InstallAll(st.lh, WriteLogAll(st.lh, st.cache), Home0, 1)]

Perms(n) == {p \in [1..n -> 1..n] : \A i, j \in 1..n : i # j => p[i] # p[j]}

Reorder(ws, p) == [i \in 1..Len(ws) |-> ws[p[i]]]

\* every batch of at most MaxWrites calls with every reordering of it
OrdInputs ==
    UNION {{[a |-> x, b |-> Reorder(x, p), done |-> FALSE,
             outA |-> NoOut, outB |-> NoOut] :
               x \in [1..n -> Writes], p \in Perms(n)} : n \in 0..MaxWrites}

InitOrder == InitLog /\ cons = ConsInit /\ rd = RdInit /\ ord \in OrdInputs

RunOrders ==
    /\ ~ord.done
    /\ ord' = [ord EXCEPT !.done = TRUE,
                          !.outA = Outcome(ord.a),
                          !.outB = Outcome(ord.b)]
    /\ UNCHANGED <<logvars, cons, rd>>

NextOrder == RunOrders

SpecOrder == InitOrder /\ [][NextOrder]_vars

\* ---- console.c: the input line buffer ----

\* input bytes: a printing character, newline, carriage return, control-D,
\* control-P, control-U, control-H, delete, and 0
IntrChars == {"x", "\n", "\r", "D", "P", "U", "H", "DEL", "nul"}

\* unsigned arithmetic on the indices
Inc(i) == (i + 1) % UintMod
Dec(i) == (i - 1) % UintMod
Dist(a, b) == (b - a) % UintMod

\* case C('U'): erase back to the start of the line being edited
RECURSIVE KillLine(_)
KillLine(cs) ==
    IF cs.e # cs.w /\ cs.buf[Dec(cs.e) % INPUT_BUF_SIZE] # "\n"
       THEN KillLine([cs EXCEPT !.e = Dec(cs.e)])
       ELSE cs

\* bug: the byte is stored without the test for a full buffer
Store_NoFullTest(cs, c) ==
    IF c # "nul"
       THEN LET ch == IF c = "\r" THEN "\n" ELSE c
                e1 == Inc(cs.e)
                c1 == [cs EXCEPT !.buf[cs.e % INPUT_BUF_SIZE] = ch, !.e = e1]
            IN  IF ch = "\n" \/ ch = "D" \/ Dist(cs.r, e1) = INPUT_BUF_SIZE
                   THEN [c1 EXCEPT !.w = e1]
                   ELSE c1
       ELSE cs

\* default: store the byte; a newline, control-D or a full buffer commits
\* the line (cons.w = cons.e)
Store(cs, c) ==
    IF c # "nul" /\ Dist(cs.r, cs.e) < INPUT_BUF_SIZE
       THEN LET ch == IF c = "\r" THEN "\n" ELSE c
                e1 == Inc(cs.e)
                c1 == [cs EXCEPT !.buf[cs.e % INPUT_BUF_SIZE] = ch, !.e = e1]
            IN  IF ch = "\n" \/ ch = "D" \/ Dist(cs.r, e1) = INPUT_BUF_SIZE
                   THEN [c1 EXCEPT !.w = e1]
                   ELSE c1
       ELSE cs

ConsoleIntr(c) ==
    /\ cons' = CASE c = "P" -> cons
                 [] c = "U" -> KillLine(cons)
                 [] c \in {"H", "DEL"} ->
                        IF cons.e # cons.w THEN [cons EXCEPT !.e = Dec(cons.e)] ELSE cons
                 [] OTHER -> Store(cons, c)
    \* wakeup(&cons.r) follows every assignment to cons.w
    /\ rd' = IF cons'.w # cons.w /\ rd.st = "sleep" THEN [rd EXCEPT !.st = "woken"]
                                                    ELSE rd
    /\ UNCHANGED <<logvars, ord>>

\* consoleread from where it holds cons.lock until it sleeps or returns:
\* n bytes are still wanted of target; bad: either_copyout fails
RECURSIVE ReadLoop(_, _, _, _)
ReadLoop(cs, n, target, bad) ==
    IF n <= 0 THEN [cons |-> cs, st |-> "ret", n |-> n]
    ELSE IF cs.r = cs.w THEN [cons |-> cs, st |-> "wait", n |-> n]
    ELSE LET ch == cs.buf[cs.r % INPUT_BUF_SIZE]
             c1 == [cs EXCEPT !.r = Inc(cs.r)]
         IN  IF ch = "D"
                THEN [cons |-> IF n < target THEN [c1 EXCEPT !.r = Dec(c1.r)] ELSE c1,
                      st |-> "ret", n |-> n]
             ELSE IF bad THEN [cons |-> c1, st |-> "ret", n |-> n]
             ELSE IF ch = "\n" THEN [cons |-> c1, st |-> "ret", n |-> n - 1]
             ELSE ReadLoop(c1, n - 1, target, bad)

\* the lock-holding section of consoleread ends: return, or with cons.r ==
\* cons.w return -1 if killed, else sleep
ReadSection(n, target, bad, killed) ==
    LET res == ReadLoop(cons, n, target, bad) IN
    /\ cons' = res.cons
    /\ rd' = IF res.st = "wait" /\ ~killed
                THEN [st |-> "sleep", n |-> res.n, target |-> target]
                ELSE RdInit
    /\ UNCHANGED <<logvars, ord>>

\* a process calls consoleread(.., n)
ConsoleRead(n, bad, killed) ==
    /\ rd.st = "none"
    /\ ReadSection(n, n, bad, killed)

\* sleep returns after wakeup(&cons.r)
ReadResume(bad, killed) ==
    /\ rd.st = "woken"
    /\ ReadSection(rd.n, rd.target, bad, killed)

NextCons ==
    \/ \E c \in IntrChars : ConsoleIntr(c)
    \/ \E n \in 1..MaxRead, bad \in BOOLEAN, killed \in BOOLEAN : ConsoleRead(n, bad, killed)
    \/ \E bad \in BOOLEAN, killed \in BOOLEAN : ReadResume(bad, killed)

SpecCons == Init /\ [][NextCons]_vars

\* ---- the same system under fair scheduling ----

\* a thread that sleep() has made runnable runs begin_op's loop again
BeginRetry(t) == pc[t] = "woken" /\ BeginOp(t)

\* begin_op's last branch: the call is admitted
Admit(t) == BeginOp(t) /\ pc'[t] = "open"

\* the steps of the thread that runs commit()
CommitStep(t) ==
    \/ CommitBegin(t)
    \/ WriteLog(t)
    \/ WriteHead(t)
    \/ InstallTrans(t)
    \/ ClearHead(t)
    \/ EndOpFinish(t)

\* The scheduler runs every runnable thread, every admitted system call
\* reaches end_op, and the disk completes every request of commit().  A
\* waiting thread that could be admitted again and again is admitted: this
\* is more than the round-robin scheduler promises.  A crash is never forced.
Fairness ==
    /\ WF_vars(ReadHead \/ RecoverInstall \/ RecoverClear \/ InitlogReturn)
    /\ \A t \in Procs :
          /\ WF_vars(BeginRetry(t))
          /\ SF_vars(Admit(t))
          /\ WF_vars(EndOp(t))
          /\ WF_vars(CommitStep(t))

SpecLive == Init /\ [][Next]_vars /\ Fairness

\* ---- properties ----

\* recover_from_log has returned and initlog has not yet
Recovered == mode = "recover" /\ panicmsg = "none" /\ cpc = "done"

\* C1: atomicity before the commit point.  After a crash that fell before
\* commit()'s first write_head reached the disk (no commit running, or commit
\* still before or inside write_log), a completed recover_from_log leaves
\* every home block as it was on disk when the batch started.
C1_AtomicBeforeCommit ==
    (Recovered /\ crashed \in {"none", "begin", "write_log"}) => home = pre

\* C1 witness: the crash fell inside write_log of a two-block batch, after
\* the first log block was written with a payload its home block does not
\* hold, and recovery has completed.
C1_Witness ==
    /\ Recovered /\ crashed = "write_log" /\ ctail = 1
    /\ Len(cdisk.lh) = 2
    /\ logd[1] # home[cdisk.lh[1]]

\* C2: durability after the commit point.  After a crash that fell after
\* commit()'s first write_head and before its second (anywhere inside
\* install_trans), a completed recover_from_log leaves every block the
\* header listed with the payload its buffer had at the commit point, and
\* every other home block as it was when the batch started.
C2_DurableAfterCommit ==
    (Recovered /\ crashed = "install") =>
        \A b \in Blocks :
            home[b] = IF b \in Range(cdisk.head) THEN final[b] ELSE pre[b]

\* C2 witness: the crash fell part-way through install_trans of a two-block
\* batch; recovery installed the second block, which the crash had left
\* with its old content.
C2_Witness ==
    /\ Recovered /\ crashed = "install" /\ ctail = 1
    /\ Len(cdisk.head) = 2
    /\ home[cdisk.head[2]] # cdisk.home[cdisk.head[2]]

\* C3: recovery replays and is idempotent.  With the header found on disk
\* at the crash listing b_0..b_(k-1), a completed recover_from_log has
\* copied log block i to home block b_i, left every other home block and
\* the log blocks alone, and persisted a header with n = 0; this is so
\* however many times initlog was interrupted by a crash and run again
\* (cdisk is taken at the first crash only).
C3_RecoveryReplays ==
    Recovered =>
        /\ dhead = <<>>
        /\ logd = cdisk.logd
        /\ \A b \in Blocks :
              LET I == {i \in 1..Len(cdisk.head) : cdisk.head[i] = b} IN
              home[b] = IF I = {} THEN cdisk.home[b]
                        ELSE cdisk.logd[CHOOSE i \in I : \A j \in I : j <= i]

\* C3 witness: a header with n = 2 was on disk, neither listed block held
\* its log block's payload yet, recovery was interrupted by a crash at
\* least once, and has now completed.
C3_Witness ==
    /\ Recovered /\ cdisk.again
    /\ Len(cdisk.head) = 2
    /\ \A i \in 1..2 : cdisk.home[cdisk.head[i]] # cdisk.logd[i]

\* the blocks still reserved for the open system calls: MAXOPBLOCKS for
\* each, less the distinct blocks it has logged so far
RECURSIVE Reserved(_)
Reserved(T) ==
    IF T = {} THEN 0
    ELSE LET t == CHOOSE x \in T : TRUE IN
         (IF pc[t] = "open" THEN MAXOPBLOCKS - Cardinality(wrote[t]) ELSE 0)
           + Reserved(T \ {t})

NoSpace == Len(lh) + (outstanding + 1) * MAXOPBLOCKS > LOGSIZE

\* C4 as the claim states it: log.lh.n + log.outstanding * MAXOPBLOCKS never
\* exceeds LOGSIZE.
C4_Original == Len(lh) + outstanding * MAXOPBLOCKS <= LOGSIZE

\* C4 amended: log.lh.n plus the blocks still reserved for the open system
\* calls never exceeds LOGSIZE, and a begin_op pass that finds
\* log.lh.n + (log.outstanding + 1) * MAXOPBLOCKS > LOGSIZE sleeps and
\* leaves log.outstanding alone.
C4_CapacityBound ==
    [][ /\ Len(lh) + Reserved(Procs) <= LOGSIZE
        /\ Len(lh') + Reserved(Procs)' <= LOGSIZE
        /\ \A t \in Procs :
              (/\ mode = "run" /\ mode' = "run"
               /\ pc[t] \in {"idle", "woken"} /\ pc'[t] # pc[t]
               /\ NoSpace)
              => (pc'[t] = "sleep" /\ outstanding' = outstanding) ]_vars

\* C4 witness: the bound is tight with two block numbers in the header, and
\* a thread sleeps for log space while no commit is running.
C4_Witness ==
    /\ mode = "run" /\ committing = 0
    /\ Len(lh) = 2
    /\ Len(lh) + Reserved(Procs) = LOGSIZE
    /\ \E t \in Procs : pc[t] = "sleep"

\* C5: group commit.  While the file system runs, the disk (log blocks,
\* header block, home blocks) is written only when no system call is open
\* and log.committing is set; a thread enters commit() only by the end_op
\* that takes log.outstanding from 1 to 0; and the header written at the
\* commit point lists, once each, exactly the block numbers passed to
\* log_write since the previous commit.
C5_GroupCommit ==
    [][ (mode = "run" /\ mode' = "run") =>
          /\ (disk' # disk) =>
                (outstanding = 0 /\ committing = 1
                   /\ \A t \in Procs : pc[t] # "open")
          /\ \A t \in Procs :
                (pc[t] # "commit" /\ pc'[t] = "commit") =>
                    (outstanding = 1 /\ outstanding' = 0)
          /\ (dhead' # dhead /\ dhead' # <<>>) =>
                (Range(dhead') = batch /\ Len(dhead') = Cardinality(batch)) ]_vars

\* C5 witness: every thread had a system call open at the same time in this
\* batch, and its commit has passed the commit point with two blocks.
C5_Witness ==
    /\ mode = "run" /\ cpc = "install"
    /\ peak = NPROC
    /\ Len(dhead) = 2 /\ Range(dhead) = batch

\* C6: log absorption.  The block numbers in log.lh are pairwise distinct;
\* the log holds one pin, never more, on the buffer of each block in the
\* header until install_trans drops it; what write_log has put in log block
\* i is the content of the buffer of block[i], that of the last write; and
\* when commit() has finished every home block holds its buffer's content.
C6_Absorption ==
    /\ \A i, j \in 1..Len(lh) : i # j => lh[i] # lh[j]
    /\ \A b \in Blocks : pin[b] <= 1
    /\ (mode = "run" /\ cpc \in {"none", "begin", "write_log"}) =>
          \A b \in Blocks : pin[b] = IF b \in Range(lh) THEN 1 ELSE 0
    /\ (mode = "run" /\ cpc = "install") =>
          \A i \in 1..Len(lh) : logd[i] = cache[lh[i]]
    /\ (mode = "run" /\ cpc = "done") => home = cache

\* C6 witness: two open system calls have both passed the same block to
\* log_write; it has one slot and one pin, and its buffer holds a payload
\* that is not on disk.
C6_Witness ==
    \E b \in Blocks :
        /\ \A t \in Procs : pc[t] = "open" /\ wrote[t] = {b}
        /\ lh = <<b>> /\ pin[b] = 1
        /\ cache[b] # home[b]

\* C7: admission.  A begin_op pass that admits its caller starts from
\* log.committing == 0 and
\* log.lh.n + (log.outstanding + 1) * MAXOPBLOCKS <= LOGSIZE and adds
\* exactly 1 to log.outstanding; nothing else raises log.outstanding; a
\* pass that puts its caller to sleep changes no field of the log.
C7_Admission ==
    [][ (mode = "run" /\ mode' = "run") =>
          /\ \A t \in Procs :
                pc[t] \in {"idle", "woken"} =>
                  /\ pc'[t] = "open" =>
                        (committing = 0 /\ ~NoSpace
                           /\ outstanding' = outstanding + 1)
                  /\ pc'[t] = "sleep" => logmem' = logmem
          /\ outstanding' > outstanding =>
                \E t \in Procs :
                    pc[t] \in {"idle", "woken"} /\ pc'[t] = "open" ]_vars

\* C7 witness: one thread has been admitted and another waits in begin_op
\* for log space, no commit running.
C7_Witness ==
    /\ mode = "run" /\ committing = 0
    /\ \E t, u \in Procs : pc[t] = "sleep" /\ pc[u] = "open"

C9_NoSplit ==
    [][ (mode = "run" /\ mode' = "run") =>
          /\ \A t \in Procs :
                pc[t] = "open" =>
                    (committing = 0 /\ wrote[t] \subseteq Range(lh)
                       /\ wrote[t] \subseteq batch)
          /\ committing = 1 =>
                (lh' = lh \/ (cpc = "install" /\ tail = Len(lh) /\ lh' = <<>>))
          /\ (cpc = "write_log" /\ cpc' = "install") =>
                batch \subseteq Range(dhead')
          /\ cpc = "install" => lh = dhead ]_vars

\* C9 witness: commit() is half-way through install_trans of a two-block
\* batch while another thread, having called begin_op, sleeps.
C9_Witness ==
    /\ mode = "run" /\ cpc = "install" /\ tail = 1 /\ Len(lh) = 2
    /\ \E t \in Procs : pc[t] = "sleep"

\* C10: with log.size = LOGSIZE and at most MAXOPBLOCKS distinct blocks per
\* system call, no log_write reaches panic("too big a transaction").
C10_NoCapacityPanic == panicmsg # "too big a transaction"

\* C11: the on-disk header never lists a slot whose log block does not yet
\* hold that batch's payload.  In every state of commit, crash and recovery a
\* non-empty on-disk header names only slots whose log block holds the
\* payload the batch gave block[i]; and the phases keep their order: while the
\* system runs the on-disk header is non-empty only between write_head(n>0)
\* and write_head(n=0), that is during install_trans, and a home block differs
\* from its pre-batch contents only while the header is committed or a
\* recovery has just replayed it.
C11_HeaderAfterData ==
    /\ \A i \in 1..Len(dhead) : logd[i] = final[dhead[i]]
    /\ (mode = "run" /\ dhead # <<>>) => (cpc = "install" /\ dhead = lh)
    /\ (mode = "run" /\ cpc \in {"none", "begin", "write_log"}) => home = pre
    /\ (mode = "recover" /\ cpc = "read_head") => (crashed = "install" \/ home = pre)

C11_Witness ==
    /\ mode = "recover" /\ cpc = "install" /\ crashed = "install"
    /\ Len(dhead) = 2
    /\ \E i \in 1..2 : logd[i] # pre[dhead[i]]

\* C12: log.committing = 1 implies log.outstanding = 0 in every state, so with
\* every end_op preceded by its own begin_op, end_op never reaches
\* panic("log.committing") and log.outstanding never becomes negative.
C12_CommitExcludesOpen ==
    /\ committing = 1 => outstanding = 0
    /\ panicmsg # "log.committing"
    /\ outstanding >= 0
    /\ outstanding = Cardinality({t \in Procs : pc[t] = "open"})

C12_Witness ==
    /\ committing = 1 /\ outstanding = 0 /\ cpc = "write_log"
    /\ \E t \in Procs : pc[t] = "sleep"

Committers == {t \in Procs : pc[t] = "commit"}

\* C13: commit() is single-threaded and runs once per batch.  At most one
\* thread is inside commit() at any time, log.committing is set exactly while
\* one is, and a thread enters commit() in exactly the steps in which
\* log.outstanding returns to 0: every batch (a maximal period in which
\* log.outstanding rises from 0 and falls back to 0) ends with one entry into
\* commit(), and there is no other entry.
C13_OneCommitPerBatch ==
    [][ (mode = "run" /\ mode' = "run") =>
          /\ Cardinality(Committers) <= 1
          /\ Cardinality(Committers') <= 1
          /\ (committing' = 1) <=> (Committers' # {})
          /\ (outstanding >= 1 /\ outstanding' = 0 /\ panicmsg' = "none")
                <=> (\E t \in Procs : pc[t] # "commit" /\ pc'[t] = "commit")
          /\ \A t \in Procs :
                (pc[t] = "commit" /\ pc'[t] # "commit") => cpc = "done" ]_vars

\* C13 witness: the commit of a batch in which two system calls overlapped
\* has finished its disk writes while another thread waits in begin_op.
C13_Witness ==
    /\ mode = "run" /\ cpc = "done" /\ peak = 2
    /\ Cardinality(Committers) = 1
    /\ \E u \in Procs : pc[u] = "sleep"

Waiting(t) == pc[t] \in {"sleep", "woken"}

\* C14: admission eventually succeeds.  Under fair scheduling, with every
\* admitted system call reaching end_op and the disk completing commit's
\* requests, every thread that waits in begin_op is eventually admitted,
\* unless the machine crashes first.
C14_AdmissionLive ==
    \A t \in Procs : Waiting(t) ~> (pc[t] = "open" \/ mode = "recover")

\* the same, unless the kernel has panicked
C14_LiveUnlessPanic ==
    \A t \in Procs :
        Waiting(t) ~> (pc[t] = "open" \/ mode = "recover" \/ panicmsg # "none")

\* C15: the header is empty outside commit.  Once initlog has returned, the
\* on-disk header has n = 0 in every state with log.committing = 0; the
\* in-memory log.lh.n is 0 when the committing end_op clears log.committing;
\* and commit() calls write_head exactly twice when log.lh.n > 0 and not at
\* all when log.lh.n = 0.
C15_HeaderEmptyOutsideCommit ==
    /\ []((mode = "run" /\ committing = 0) => (dhead = <<>> /\ hwrites = 0))
    /\ [][ (mode = "run" /\ mode' = "run") =>
             /\ (committing = 1 /\ committing' = 0) =>
                   (lh = <<>> /\ lh' = <<>> /\ hwrites \in {0, 2})
             /\ (hwrites' # hwrites /\ committing' = 1) =>
                   (lh # <<>> /\ hwrites' = hwrites + 1)
             /\ (cpc = "begin" /\ cpc' # "begin" /\ lh = <<>>) =>
                   (cpc' = "done" /\ hwrites' = 0)
             /\ (cpc = "install" /\ cpc' = "done") => hwrites' = 2 ]_vars

\* C15 witness: a commit of two blocks has made both its header writes and
\* log.committing is still set.
C15_Witness ==
    /\ mode = "run" /\ cpc = "done" /\ committing = 1
    /\ hwrites = 2 /\ dhead = <<>> /\ lh = <<>>
    /\ home # [b \in Blocks |-> 0]

\* the log holds a pin on the buffer of block b: b was passed to log_write in
\* this batch and install_trans(0) has not yet processed its slot
LogHolds(b) ==
    /\ mode = "run"
    /\ \E i \in 1..Len(lh) : lh[i] = b /\ (cpc = "install" => i > tail)

\* C16: pin balance.  The log's pin count on the buffer of a block is 1
\* exactly from the first log_write of the block in a batch until
\* install_trans(0) processes its slot, and 0 otherwise: install_trans(0)
\* unpins each logged block once, install_trans(1) of recovery unpins
\* nothing, and after every commit no pin of the log is left.
C16_PinBalance ==
    /\ \A b \in Blocks : pin[b] = IF LogHolds(b) THEN 1 ELSE 0
    /\ mode = "recover" => \A b \in Blocks : pin[b] = 0
    /\ (mode = "run" /\ cpc \in {"done", "none"} /\ outstanding = 0) =>
          \A b \in Blocks : pin[b] = 0

\* C16 witness: install_trans(0) has processed the first of two slots: the
\* first block is unpinned, the second still pinned.
C16_Witness ==
    /\ mode = "run" /\ cpc = "install" /\ tail = 1 /\ Len(lh) = 2
    /\ pin[lh[1]] = 0 /\ pin[lh[2]] = 1

\* C18: log.committing is 1 exactly from the critical section in which the
\* committing end_op sets it (log.outstanding has reached 0) until the same
\* thread clears it after commit() has returned.  During commit() that thread
\* does not hold log.lock: another thread's begin_op can take the lock, finds
\* log.committing set and goes to sleep, changing nothing.
C18_CommittingWindow ==
    /\ [](mode = "run" =>
            /\ (committing = 1) <=> (Committers # {})
            /\ lock \notin Committers
            /\ (committing = 1 /\ panicmsg = "none") =>
                  \A u \in Procs :
                      pc[u] \in {"idle", "woken"} => ENABLED BeginOp(u))
    /\ [][ (mode = "run" /\ mode' = "run") =>
             /\ (committing = 0 /\ committing' = 1) =>
                   (outstanding' = 0
                      /\ \E t \in Procs : pc[t] = "open" /\ pc'[t] = "commit")
             /\ (committing = 1 /\ committing' = 0) =>
                   (cpc = "done"
                      /\ \E t \in Procs : pc[t] = "commit" /\ pc'[t] = "idle")
             /\ committing = 1 =>
                   \A u \in Procs :
                       (pc[u] \in {"idle", "woken"} /\ pc'[u] # pc[u]) =>
                           (pc'[u] = "sleep" /\ logmem' = logmem) ]_vars

\* C18 witness: commit() has just started and a thread that called begin_op
\* since then sleeps.
C18_Witness ==
    /\ mode = "run" /\ committing = 1 /\ cpc = "begin" /\ lock = 0
    /\ \E u \in Procs : pc[u] = "sleep"

\* C19 as stated: a log_write call made while log.outstanding < 1 ends in
\* panic("log_write outside of trans") and changes neither log.lh.n, nor an
\* entry of log.lh.block, nor a pin count.
C19_Original ==
    [][ \A t \in Procs, b \in Blocks :
           (outstanding < 1 /\ StrayLogWrite(t, b)) =>
               /\ panicmsg' = "log_write outside of trans"
               /\ lh' = lh /\ pin' = pin ]_vars

\* C19, amended: a log_write call made while log.outstanding < 1 ends in a
\* panic and changes neither log.lh.n, nor an entry of log.lh.block, nor a pin
\* count; the panic is "log_write outside of trans" unless log.lh.n has
\* reached the capacity limit, which is tested first and gives "too big a
\* transaction".
C19_StrayPanics ==
    [][ \A t \in Procs, b \in Blocks :
           (outstanding < 1 /\ StrayLogWrite(t, b)) =>
               /\ panicmsg' = IF TooBig THEN "too big a transaction"
                                        ELSE "log_write outside of trans"
               /\ lh' = lh /\ pin' = pin ]_vars

\* C19 witness: a stray log_write during the commit of a one-block batch has
\* panicked; the header and the pin are as they were.
C19_Witness ==
    /\ panicmsg = "log_write outside of trans"
    /\ outstanding = 0 /\ committing = 1
    /\ Len(lh) = 1 /\ pin[lh[1]] = 1

\* the payload of the last call of ws for block b, -1 if there is none
LastPayload(ws, b) ==
    LET I == {i \in 1..Len(ws) : ws[i][1] = b} IN
    IF I = {} THEN -1 ELSE ws[CHOOSE i \in I : \A j \in I : j <= i][2]

BothCommit == ord.done /\ ~ord.outA.panic /\ ~ord.outB.panic

\* C17 as stated: for any two orders of the same log_write calls of one
\* batch, the home blocks after commit() are the same.
C17_Original == BothCommit => ord.outA.home = ord.outB.home

\* C17, amended: two orders of the same log_write calls of one batch, both
\* followed by commit(), leave the same home blocks whenever the last call
\* for each block carries the same payload in both orders (in particular when
\* no block is written with two different payloads), whatever slots the
\* blocks occupy.
C17_SameLastPayload ==
    (BothCommit /\ \A b \in Blocks : LastPayload(ord.a, b) = LastPayload(ord.b, b))
        => ord.outA.home = ord.outB.home

\* C17 witness: two blocks logged in opposite orders occupy different slots
\* and commit to the same home blocks.
C17_Witness ==
    /\ BothCommit
    /\ Len(ord.outA.lh) = 2 /\ ord.outA.lh # ord.outB.lh
    /\ \A b \in Blocks : LastPayload(ord.a, b) = LastPayload(ord.b, b)
    /\ ord.outA.home = ord.outB.home /\ ord.outA.home # Home0

\* the slots of cons.buf that hold bytes not yet consumed by consoleread
Unconsumed == {(cons.r + k) % INPUT_BUF_SIZE : k \in 0..(Dist(cons.r, cons.e) - 1)}

\* C20 as stated: cons.r <= cons.w <= cons.e and cons.e - cons.r <=
\* INPUT_BUF_SIZE in every state.
C20_Original ==
    /\ cons.r <= cons.w /\ cons.w <= cons.e
    /\ Dist(cons.r, cons.e) <= INPUT_BUF_SIZE

\* C20, amended: for any interleaving of consoleintr and consoleread calls,
\* the indices stay ordered as unsigned distances from cons.r: cons.w - cons.r
\* <= cons.e - cons.r <= INPUT_BUF_SIZE in every state; consoleintr stores
\* only into a slot that holds no unconsumed byte, and erase and kill-line
\* move cons.e back only towards cons.w, never past it.
C20_IndexWindow ==
    /\ [](/\ Dist(cons.r, cons.w) <= Dist(cons.r, cons.e)
          /\ Dist(cons.r, cons.e) <= INPUT_BUF_SIZE)
    /\ [][ /\ \A i \in 0..(INPUT_BUF_SIZE - 1) :
                 cons'.buf[i] # cons.buf[i] => i \notin Unconsumed
           /\ (cons'.e = Inc(cons.e) /\ cons'.r = cons.r) =>
                 (cons.e % INPUT_BUF_SIZE) \notin Unconsumed
           /\ (cons'.e # cons.e /\ cons'.e # Inc(cons.e)) =>
                 (cons'.w = cons.w /\ Dist(cons.w, cons'.e) < Dist(cons.w, cons.e))
         ]_vars

\* C20 witness: cons.e has wrapped, cons.r has not, and the buffer is full.
C20_Witness ==
    /\ cons.e < cons.r
    /\ Dist(cons.r, cons.e) = INPUT_BUF_SIZE
    /\ cons.w = cons.e
====
